---- MODULE Spec2Model ----
(***************************************************************************)
(* A model of the primitive-value capture protocol of src/src/lib.rs:      *)
(* the Visitor sink with its default methods, the self-contained           *)
(* Visit implementations generated by ensure_impl_visit!, and the          *)
(* serde_interop Visit implementation that drives a value through          *)
(* SerdeBridge and falls back to a Debug rendering on Unsupported.         *)
(*                                                                         *)
(* Representation of data.  TLC integers are 32 bits wide, so 64-bit       *)
(* machine integers are kept as little-endian byte sequences of the        *)
(* width of their type (u8: 1 byte ... u64: 8 bytes, two's complement for  *)
(* the signed types).  Floats are kept as their IEEE-754 fields:           *)
(* f32 = <<sign, exponent(8 bits), mantissa(23 bits)>>,                    *)
(* f64 = <<sign, exponent(11 bits), mantissa high 23 bits, low 29 bits>>.  *)
(* bool = <<0>> or <<1>>, char = <<scalar value>>, str and [u8] are byte   *)
(* sequences, and a rendered text is a sequence of character codes.        *)
(***************************************************************************)
EXTENDS Integers, Sequences, FiniteSets, TLC

\* ------------------------------------------------------------------ bounds

\* The largest number of wrappers (& or Some) around a captured value.
MaxLayers == 2

\* ------------------------------------------------------- integer widening

Pow2(n) == 2 ^ n

\* n copies of the byte b.
Fill(n, b) == [i \in 1..n |-> b]

\* The most significant byte of a little-endian byte sequence.
TopByte(bytes) == bytes[Len(bytes)]

\* `v as u64` for v of an unsigned type: zero extension to 8 bytes.
as_u64(bytes) == bytes \o Fill(8 - Len(bytes), 0)

\* A wrong widening of a signed value: zero extension, which loses the sign.
as_i64_zero_extend(bytes) == bytes \o Fill(8 - Len(bytes), 0)

\* `v as i64` for v of a signed type: sign extension to 8 bytes.
as_i64(bytes) ==
    bytes \o Fill(8 - Len(bytes), IF TopByte(bytes) >= 128 THEN 255 ELSE 0)

\* ---------------------------------------------------------- float widening

\* The index of the highest set bit of m > 0.
RECURSIVE HighBit(_)
HighBit(m) == IF m <= 1 THEN 0 ELSE 1 + HighBit(m \div 2)

\* `v as f64` for v: f32.  The conversion is exact: a normal number is
\* re-biased (127 -> 1023) and its mantissa moves to the top 23 of the 52
\* bits, an f32 subnormal becomes a normal f64, infinities stay infinite
\* and a NaN stays a NaN (quieted, as the hardware conversion does).
as_f64(f) ==
    LET s == f[1]
        e == f[2]
        m == f[3]
    IN  IF e = 255 THEN
            <<s, 2047, IF m = 0 THEN 0 ELSE (m % Pow2(22)) + Pow2(22), 0>>
        ELSE IF e = 0 /\ m = 0 THEN <<s, 0, 0, 0>>
        ELSE IF e = 0 THEN
            LET k == HighBit(m)
            IN  <<s, k + 874, (m - Pow2(k)) * Pow2(23 - k), 0>>
        ELSE <<s, e + 896, m, 0>>

\* ------------------------------------------------------------------ UTF-8

\* char::encode_utf8: the 1-to-4-byte UTF-8 encoding of a scalar value.
encode_utf8(c) ==
    IF c < 128 THEN <<c>>
    ELSE IF c < 2048 THEN <<192 + (c \div 64), 128 + (c % 64)>>
    ELSE IF c < 65536 THEN
        <<224 + (c \div 4096), 128 + ((c \div 64) % 64), 128 + (c % 64)>>
    ELSE <<240 + (c \div 262144), 128 + ((c \div 4096) % 64),
           128 + ((c \div 64) % 64), 128 + (c % 64)>>

\* ---------------------------------------------------------------- Visitor

\* The operations of the Visitor trait.
VisitMethods ==
    {"visit_i64", "visit_u64", "visit_f64", "visit_bool", "visit_char",
     "visit_str", "visit_bytes", "visit_args"}

\* One call received by the visitor: the operation, the type and the value
\* of its argument, the format string when the argument is a
\* fmt::Arguments ("-" otherwise; an Arguments is kept unrendered, as
\* format_args! builds it) and the nesting depth: 0 for a call made by
\* Visit::visit or by SerdeBridge, n + 1 for a call made by the default
\* body of a call of depth n.
Call(m, of, val, spec, d) ==
    [m |-> m, of |-> of, val |-> val, spec |-> spec, depth |-> d]

\* A visitor is the set of the operations it overrides; visit_args has no
\* default body, so every visitor implements it.
visit_args(vis, of, val, spec, d) == <<Call("visit_args", of, val, spec, d)>>

visit_i64(vis, v, d) ==
    <<Call("visit_i64", "i64", v, "-", d)>> \o
    (IF "visit_i64" \in vis THEN <<>>
     ELSE visit_args(vis, "i64", v, "{:?}", d + 1))

visit_u64(vis, v, d) ==
    <<Call("visit_u64", "u64", v, "-", d)>> \o
    (IF "visit_u64" \in vis THEN <<>>
     ELSE visit_args(vis, "u64", v, "{:?}", d + 1))

visit_f64(vis, v, d) ==
    <<Call("visit_f64", "f64", v, "-", d)>> \o
    (IF "visit_f64" \in vis THEN <<>>
     ELSE visit_args(vis, "f64", v, "{:?}", d + 1))

visit_bool(vis, v, d) ==
    <<Call("visit_bool", "bool", v, "-", d)>> \o
    (IF "visit_bool" \in vis THEN <<>>
     ELSE visit_args(vis, "bool", v, "{:?}", d + 1))

visit_str(vis, v, d) ==
    <<Call("visit_str", "str", v, "-", d)>> \o
    (IF "visit_str" \in vis THEN <<>>
     ELSE visit_args(vis, "str", v, "{:?}", d + 1))

visit_bytes(vis, v, d) ==
    <<Call("visit_bytes", "[u8]", v, "-", d)>> \o
    (IF "visit_bytes" \in vis THEN <<>>
     ELSE visit_args(vis, "[u8]", v, "{:?}", d + 1))

\* A wrong default for visit_char: formatted like the other defaults.
visit_char_formats(vis, v, d) ==
    <<Call("visit_char", "char", v, "-", d)>> \o
    (IF "visit_char" \in vis THEN <<>>
     ELSE visit_args(vis, "char", v, "{:?}", d + 1))

visit_char(vis, v, d) ==
    <<Call("visit_char", "char", v, "-", d)>> \o
    (IF "visit_char" \in vis THEN <<>>
     ELSE visit_str(vis, encode_utf8(v[1]), d + 1))

\* ------------------------------------------- self-contained Visit (no serde)

UnsignedTypes == {"u8", "u16", "u32", "u64"}
SignedTypes == {"i8", "i16", "i32", "i64"}
FloatTypes == {"f32", "f64"}
TextTypes == {"str", "String"}
ByteTypes == {"[u8]", "Vec<u8>"}

\* The types ensure_impl_visit! is invoked for.
VisitTypes ==
    UnsignedTypes \cup SignedTypes \cup FloatTypes \cup TextTypes
        \cup ByteTypes \cup {"char", "bool"}

\* The body of Visit::visit that ensure_impl_visit! gives each type.
visit_impl(ty, v, vis) ==
    CASE ty \in UnsignedTypes -> visit_u64(vis, as_u64(v), 0)
      [] ty \in SignedTypes -> visit_i64(vis, as_i64(v), 0)
      [] ty = "f32" -> visit_f64(vis, as_f64(v), 0)
      [] ty = "f64" -> visit_f64(vis, v, 0)
      [] ty = "char" -> visit_char(vis, v, 0)
      [] ty = "bool" -> visit_bool(vis, v, 0)
      [] ty \in TextTypes -> visit_str(vis, v, 0)
      [] ty \in ByteTypes -> visit_bytes(vis, v, 0)

\* A wrong reference impl: it visits the referent once per layer, twice.
visit_ref_twice(rest, ty, v, vis) ==
    visit_impl(ty, v, vis) \o visit_impl(ty, v, vis)

\* impl Visit for &T: (**self).visit(visitor).  `rest` is what remains of
\* the reference layers under the one being dereferenced.
RECURSIVE visit_ref(_, _, _, _)
visit_ref(rest, ty, v, vis) ==
    IF rest = <<>> THEN visit_impl(ty, v, vis)
    ELSE visit_ref(Tail(rest), ty, v, vis)

\* Visit::visit of a value of a type of VisitTypes under `layers` references.
visit_self_contained(layers, ty, v, vis) ==
    IF layers = <<>> THEN visit_impl(ty, v, vis)
    ELSE visit_ref(Tail(layers), ty, v, vis)

\* ------------------------------------------------ SerdeBridge (serde_interop)

\* What one Serializer method of the bridge returns and the calls it made
\* on the wrapped visitor.  `returned` is the bridge's own return value and
\* `result` what the value's Serialize impl then returns to Visit::visit;
\* `received` lists the Serializer methods the value called on the bridge,
\* in order.
Outcome(result, calls) ==
    [result |-> result, returned |-> result, calls |-> calls,
     received |-> <<>>]

Unsupported == "Unsupported"

\* Error::custom: the message is dropped, Unsupported is a unit struct.
custom(msg) == Unsupported

serialize_bool(vis, v) == Outcome("Ok", visit_bool(vis, v, 0))

serialize_i64(vis, v) == Outcome("Ok", visit_i64(vis, v, 0))

serialize_i8(vis, v) == serialize_i64(vis, as_i64(v))

serialize_i16(vis, v) == serialize_i64(vis, as_i64(v))

serialize_i32(vis, v) == serialize_i64(vis, as_i64(v))

serialize_u64(vis, v) == Outcome("Ok", visit_u64(vis, v, 0))

serialize_u8(vis, v) == serialize_u64(vis, as_u64(v))

serialize_u16(vis, v) == serialize_u64(vis, as_u64(v))

serialize_u32(vis, v) == serialize_u64(vis, as_u64(v))

serialize_f64(vis, v) == Outcome("Ok", visit_f64(vis, v, 0))

serialize_f32(vis, v) == serialize_f64(vis, as_f64(v))

serialize_char(vis, v) == Outcome("Ok", visit_char(vis, v, 0))

serialize_str(vis, v) == Outcome("Ok", visit_str(vis, v, 0))

\* collect_str hands the Display of its argument to visit_args and succeeds.
collect_str(vis, v) == Outcome("Ok", visit_args(vis, "Display", v, "{}", 0))

serialize_bytes(vis, v) == Outcome("Ok", visit_bytes(vis, v, 0))

serialize_none(vis) == Outcome(Unsupported, <<>>)

serialize_unit(vis) == Outcome(Unsupported, <<>>)

serialize_unit_struct(vis) == Outcome(Unsupported, <<>>)

serialize_unit_variant(vis) == Outcome(Unsupported, <<>>)

serialize_newtype_struct(vis) == Outcome(Unsupported, <<>>)

serialize_newtype_variant(vis) == Outcome(Unsupported, <<>>)

\* A wrong serialize_seq: it reports the sequence to the visitor as bytes.
serialize_seq_as_bytes(vis) == Outcome(Unsupported, visit_bytes(vis, <<>>, 0))

serialize_seq(vis) == Outcome(Unsupported, <<>>)

serialize_tuple(vis) == Outcome(Unsupported, <<>>)

serialize_tuple_struct(vis) == Outcome(Unsupported, <<>>)

serialize_tuple_variant(vis) == Outcome(Unsupported, <<>>)

serialize_map(vis) == Outcome(Unsupported, <<>>)

serialize_struct(vis) == Outcome(Unsupported, <<>>)

serialize_struct_variant(vis) == Outcome(Unsupported, <<>>)

\* The Serializer methods that forward their argument to the visitor.
PrimitiveMethods ==
    {"serialize_bool", "serialize_i8", "serialize_i16", "serialize_i32",
     "serialize_i64", "serialize_u8", "serialize_u16", "serialize_u32",
     "serialize_u64", "serialize_f32", "serialize_f64", "serialize_char",
     "serialize_str", "serialize_bytes"}

\* The Serializer methods for structured shapes (lines 336-434 less
\* serialize_some).
StructuredMethods ==
    {"serialize_none", "serialize_unit", "serialize_unit_struct",
     "serialize_unit_variant", "serialize_newtype_struct",
     "serialize_newtype_variant", "serialize_seq", "serialize_tuple",
     "serialize_tuple_struct", "serialize_tuple_variant", "serialize_map",
     "serialize_struct", "serialize_struct_variant"}

\* A call of the method named m on SerdeBridge(vis) with argument v.
SerdeBridge(m, v, vis) ==
    CASE m = "serialize_bool" -> serialize_bool(vis, v)
      [] m = "serialize_i8" -> serialize_i8(vis, v)
      [] m = "serialize_i16" -> serialize_i16(vis, v)
      [] m = "serialize_i32" -> serialize_i32(vis, v)
      [] m = "serialize_i64" -> serialize_i64(vis, v)
      [] m = "serialize_u8" -> serialize_u8(vis, v)
      [] m = "serialize_u16" -> serialize_u16(vis, v)
      [] m = "serialize_u32" -> serialize_u32(vis, v)
      [] m = "serialize_u64" -> serialize_u64(vis, v)
      [] m = "serialize_f32" -> serialize_f32(vis, v)
      [] m = "serialize_f64" -> serialize_f64(vis, v)
      [] m = "serialize_char" -> serialize_char(vis, v)
      [] m = "serialize_str" -> serialize_str(vis, v)
      [] m = "collect_str" -> collect_str(vis, v)
      [] m = "serialize_bytes" -> serialize_bytes(vis, v)
      [] m = "serialize_none" -> serialize_none(vis)
      [] m = "serialize_unit" -> serialize_unit(vis)
      [] m = "serialize_unit_struct" -> serialize_unit_struct(vis)
      [] m = "serialize_unit_variant" -> serialize_unit_variant(vis)
      [] m = "serialize_newtype_struct" -> serialize_newtype_struct(vis)
      [] m = "serialize_newtype_variant" -> serialize_newtype_variant(vis)
      [] m = "serialize_seq" -> serialize_seq(vis)
      [] m = "serialize_tuple" -> serialize_tuple(vis)
      [] m = "serialize_tuple_struct" -> serialize_tuple_struct(vis)
      [] m = "serialize_tuple_variant" -> serialize_tuple_variant(vis)
      [] m = "serialize_map" -> serialize_map(vis)
      [] m = "serialize_struct" -> serialize_struct(vis)
      [] m = "serialize_struct_variant" -> serialize_struct_variant(vis)

\* The outcome o of a call of method m, with the call logged.
Received(m, o) == [o EXCEPT !.received = <<m>> \o @]

\* The Serialize impl of the captured value, driven with SerdeBridge(vis).
\* A value is a core under `layers` wrappers, outermost first: "ref" is a
\* reference (serde's impl for &T serializes the referent) and "some" is
\* Option::Some (serde's impl calls serialize_some with the inner value).
\* The core's impl calls one Serializer method, core.method, with
\* core.payload (or none when core.method = "none") and then returns that
\* call's result (core.after = "return") or an error made with
\* Error::custom(core.msg) (core.after = "custom", and always when it
\* called nothing: only a Serializer method can produce an S::Ok).
RECURSIVE Serialize(_, _, _)

\* A wrong serialize_some: rejected like the other structured shapes.
serialize_some_rejects(rest, core, vis) == Outcome(Unsupported, <<>>)

\* SerdeBridge::serialize_some: v.serialize(self).
serialize_some(rest, core, vis) == Serialize(rest, core, vis)

Serialize(layers, core, vis) ==
    IF layers # <<>> THEN
        IF Head(layers) = "ref" THEN Serialize(Tail(layers), core, vis)
        ELSE Received("serialize_some", serialize_some(Tail(layers), core, vis))
    ELSE IF core.method = "none" THEN
        [Outcome(custom(core.msg), <<>>) EXCEPT !.returned = "none"]
    ELSE
        LET o == Received(core.method, SerdeBridge(core.method, core.payload, vis))
        IN  IF core.after = "custom" THEN [o EXCEPT !.result = custom(core.msg)]
            ELSE o

\* The text of Display for Unsupported.
UnsupportedText ==
    <<117, 110, 115, 117, 112, 112, 111, 114, 116, 101, 100, 32,
      118, 97, 108, 117, 101>>

\* A wrong fallback: it renders the error instead of the value.
visit_fallback_renders_error(value, vis) ==
    visit_args(vis, "Display", UnsupportedText, "{}", 0)

\* visitor.visit_args(&format_args!("{:?}", self)): value.dbg is what the
\* Debug impl of the captured value writes.
visit_fallback(value, vis) == visit_args(vis, "Debug", value.core.dbg, "{:?}", 0)

\* Visit::visit of the serde_interop build: the bridge attempt, then the
\* fallback when the attempt returned Err(Unsupported).
visit_serde(value, vis) ==
    LET o == Serialize(value.layers, value.core, vis)
    IN  [bridge |-> o,
         calls |-> IF o.result = Unsupported
                   THEN o.calls \o visit_fallback(value, vis)
                   ELSE o.calls]

\* ------------------------------------------------------------------ inputs

\* Sample values of each type of VisitTypes, the extremes of each width
\* among them.
Samples(ty) ==
    CASE ty = "u8" -> {<<0>>, <<1>>, <<255>>}
      [] ty = "u16" -> {<<1, 0>>, <<0, 128>>, <<255, 255>>}
      [] ty = "u32" -> {<<1, 0, 0, 0>>, <<0, 0, 0, 128>>, Fill(4, 255)}
      [] ty = "u64" -> {<<123>> \o Fill(7, 0), Fill(7, 0) \o <<128>>, Fill(8, 255)}
      [] ty = "i8" -> {<<0>>, <<127>>, <<128>>, <<255>>}
      [] ty = "i16" -> {<<1, 0>>, <<0, 128>>, <<255, 255>>, <<255, 127>>}
      [] ty = "i32" -> {<<0, 0, 0, 128>>, Fill(4, 255), <<255, 255, 255, 127>>}
      [] ty = "i64" -> {Fill(7, 0) \o <<128>>, Fill(8, 255), Fill(7, 255) \o <<127>>}
      [] ty = "f32" -> {<<0, 0, 0>>, <<1, 0, 0>>, <<0, 127, 0>>,
                        <<1, 127, 4194304>>, <<0, 0, 1>>, <<1, 0, 4194305>>,
                        <<0, 0, 8388607>>, <<0, 1, 0>>, <<0, 254, 8388607>>,
                        <<1, 255, 0>>, <<0, 255, 1>>}
      [] ty = "f64" -> {<<0, 0, 0, 0>>, <<0, 1023, 0, 0>>, <<0, 0, 0, 1>>,
                        <<1, 2046, 8388607, 536870911>>, <<0, 1023, 0, 1>>,
                        <<0, 2047, 0, 0>>}
      [] ty = "char" -> {<<0>>, <<120>>, <<127>>, <<128>>, <<233>>, <<2047>>,
                         <<2048>>, <<55295>>, <<57344>>, <<65535>>, <<65536>>,
                         <<1114111>>}
      [] ty = "bool" -> {<<0>>, <<1>>}
      [] ty \in TextTypes -> {<<>>, <<120>>, <<195, 169>>,
                              <<97, 32, 115, 116, 114, 105, 110, 103>>}
      [] ty \in ByteTypes -> {<<>>, <<1, 2>>, <<255, 0, 128>>}

\* What Debug impls write, what Display impls write and the messages given
\* to Error::custom: three disjoint sets of texts.  The Debug impl of the
\* captured type is a parameter of Visit::visit (T: fmt::Debug), so every
\* value carries the text its impl writes.
DebugTexts == {<<123, 125>>, <<83, 111, 109, 101, 40, 49, 41>>}
DisplayTexts == {<<100, 105, 115, 112>>}
Messages == {<<109, 115, 103>>}

\* The Serializer method that serde's Serialize impl of each type of
\* VisitTypes calls: the method of its own width for a number, and
\* serialize_seq for a slice or a Vec of bytes (serde serializes [T] and
\* Vec<T> as sequences for every T).
SerdeMethod(ty) ==
    CASE ty = "u8" -> "serialize_u8"
      [] ty = "u16" -> "serialize_u16"
      [] ty = "u32" -> "serialize_u32"
      [] ty = "u64" -> "serialize_u64"
      [] ty = "i8" -> "serialize_i8"
      [] ty = "i16" -> "serialize_i16"
      [] ty = "i32" -> "serialize_i32"
      [] ty = "i64" -> "serialize_i64"
      [] ty = "f32" -> "serialize_f32"
      [] ty = "f64" -> "serialize_f64"
      [] ty = "char" -> "serialize_char"
      [] ty = "bool" -> "serialize_bool"
      [] ty \in TextTypes -> "serialize_str"
      [] ty \in ByteTypes -> "serialize_seq"

\* The type of the argument of each forwarding Serializer method.
ArgType(m) ==
    CASE m = "serialize_bytes" -> "[u8]"
      [] OTHER -> CHOOSE ty \in VisitTypes \ {"String"} : SerdeMethod(ty) = m

\* The arguments a user-defined Serialize impl gives to each method.
SampleArgs(m) ==
    CASE m \in PrimitiveMethods -> Samples(ArgType(m))
      [] m = "collect_str" -> DisplayTexts
      [] OTHER -> {<<>>}

\* The values of the types of VisitTypes.
PrimitiveCores ==
    UNION {{[ty |-> ty, method |-> SerdeMethod(ty), payload |-> v,
             after |-> "return", dbg |-> d, msg |-> <<>>] :
                v \in Samples(ty), d \in DebugTexts} : ty \in VisitTypes}

\* The values of user-defined types: any Serialize impl that calls one
\* Serializer method or none, and returns its result or a custom error.
UserCores ==
    UNION {{[ty |-> "user", method |-> m, payload |-> v, after |-> a,
             dbg |-> d, msg |-> g] :
                v \in SampleArgs(m), a \in {"return", "custom"},
                d \in DebugTexts, g \in Messages} :
           m \in PrimitiveMethods \cup StructuredMethods \cup {"collect_str"}}
    \cup {[ty |-> "user", method |-> "none", payload |-> <<>>,
           after |-> "custom", dbg |-> d, msg |-> g] :
                d \in DebugTexts, g \in Messages}

\* The sequences of at most n wrappers drawn from the set S.
LayersUpTo(S, n) == UNION {[1..k -> S] : k \in 0..n}

\* The visitors: one that overrides every operation (as tests::TestVisitor
\* does), one that implements visit_args alone, and one that also
\* overrides visit_str.
Visitors == {VisitMethods, {"visit_args"}, {"visit_args", "visit_str"}}

\* ------------------------------------------------------------------- state

VARIABLES
    feature,    \* the build: "self_contained" or "serde_interop"
    value,      \* the value being captured
    visitor,    \* the operations the visitor overrides
    pc,         \* "ready" before Visit::visit is called, "done" after
    bridge,     \* what the bridge attempt returned (serde_interop)
    calls       \* the calls the visitor received, in order

vars == <<feature, value, visitor, pc, bridge, calls>>

\* No bridge attempt was made.
NoBridge ==
    [result |-> "none", returned |-> "none", calls |-> <<>>, received |-> <<>>]

\* A capture is a call v.visit(&mut visitor).  The self-contained build
\* admits the types of VisitTypes and references to them; the serde_interop
\* build admits every value that is Serialize + Debug.
Init ==
    /\ pc = "ready"
    /\ bridge = NoBridge
    /\ calls = <<>>
    /\ visitor \in Visitors
    /\ \/ /\ feature = "self_contained"
          /\ value \in [layers : LayersUpTo({"ref"}, MaxLayers),
                        core : PrimitiveCores]
       \/ /\ feature = "serde_interop"
          /\ value \in [layers : LayersUpTo({"ref", "some"}, MaxLayers),
                        core : PrimitiveCores \cup UserCores]

\* Visit::visit, build without serde_interop.
VisitSelfContained ==
    /\ pc = "ready"
    /\ feature = "self_contained"
    /\ calls' = visit_self_contained(value.layers, value.core.ty,
                                     value.core.payload, visitor)
    /\ pc' = "done"
    /\ UNCHANGED <<feature, value, visitor, bridge>>

\* Visit::visit, build with serde_interop.
VisitSerde ==
    /\ pc = "ready"
    /\ feature = "serde_interop"
    /\ LET r == visit_serde(value, visitor)
       IN  /\ bridge' = r.bridge
           /\ calls' = r.calls
    /\ pc' = "done"
    /\ UNCHANGED <<feature, value, visitor>>

Next == VisitSelfContained \/ VisitSerde

Spec == Init /\ [][Next]_vars

\* ------------------------------------------------- what the claims speak of

\* The calls made on the visitor by Visit::visit or by the bridge, without
\* those the visitor's default bodies made.
TopCalls == SelectSeq(calls, LAMBDA c : c.depth = 0)

Done == pc = "done"

\* The number a little-endian byte sequence denotes, as its magnitude with
\* the high zero bytes dropped.
RECURSIVE Magnitude(_)
Magnitude(bytes) ==
    IF bytes = <<>> THEN <<>>
    ELSE IF TopByte(bytes) = 0 THEN Magnitude(SubSeq(bytes, 1, Len(bytes) - 1))
    ELSE bytes

\* bytes + 1, dropping the carry out of the top byte.
RECURSIVE Increment(_)
Increment(bytes) ==
    IF bytes = <<>> THEN <<>>
    ELSE IF Head(bytes) = 255 THEN <<0>> \o Increment(Tail(bytes))
    ELSE <<Head(bytes) + 1>> \o Tail(bytes)

\* The two's complement of a byte sequence.
Negate(bytes) == Increment([i \in 1..Len(bytes) |-> 255 - bytes[i]])

\* The integer a byte sequence of a signed or unsigned type denotes.
IntValue(signed, bytes) ==
    IF signed /\ TopByte(bytes) >= 128
    THEN [neg |-> TRUE, mag |-> Magnitude(Negate(bytes))]
    ELSE [neg |-> FALSE, mag |-> Magnitude(bytes)]

\* sig * 2^exp with sig > 0, brought to an odd sig.
RECURSIVE Odd(_, _)
Odd(sig, exp) ==
    IF sig % 2 = 0 THEN Odd(sig \div 2, exp + 1) ELSE <<sig, exp>>

FloatClass(cls, s, se, lo) ==
    [cls |-> cls, s |-> s, sig |-> se[1], exp |-> se[2], lo |-> lo]

\* The real number (or infinity, or NaN) an f32 denotes.
FloatValue32(f) ==
    IF f[2] = 255 THEN
        IF f[3] = 0 THEN FloatClass("inf", f[1], <<0, 0>>, 0)
        ELSE FloatClass("nan", 0, <<0, 0>>, 0)
    ELSE IF f[2] = 0 /\ f[3] = 0 THEN FloatClass("zero", f[1], <<0, 0>>, 0)
    ELSE IF f[2] = 0 THEN FloatClass("finite", f[1], Odd(f[3], -149), 0)
    ELSE FloatClass("finite", f[1], Odd(Pow2(23) + f[3], f[2] - 150), 0)

\* The real number (or infinity, or NaN) an f64 denotes.  A mantissa with
\* low bits set has more than 24 significant bits: no f32 denotes it, and
\* it is kept as it is.
FloatValue64(f) ==
    IF f[2] = 2047 THEN
        IF f[3] = 0 /\ f[4] = 0 THEN FloatClass("inf", f[1], <<0, 0>>, 0)
        ELSE FloatClass("nan", 0, <<0, 0>>, 0)
    ELSE IF f[2] = 0 /\ f[3] = 0 /\ f[4] = 0 THEN
        FloatClass("zero", f[1], <<0, 0>>, 0)
    ELSE IF f[4] # 0 THEN FloatClass("wide", f[1], <<f[3], f[2]>>, f[4])
    ELSE IF f[2] = 0 THEN FloatClass("finite", f[1], Odd(f[3], -1045), 0)
    ELSE FloatClass("finite", f[1], Odd(Pow2(23) + f[3], f[2] - 1046), 0)

\* The scalar value a well-formed UTF-8 sequence of one character encodes.
decode_utf8(b) ==
    CASE Len(b) = 1 -> b[1]
      [] Len(b) = 2 -> (b[1] - 192) * 64 + (b[2] - 128)
      [] Len(b) = 3 -> (b[1] - 224) * 4096 + (b[2] - 128) * 64 + (b[3] - 128)
      [] Len(b) = 4 -> (b[1] - 240) * 262144 + (b[2] - 128) * 4096
                            + (b[3] - 128) * 64 + (b[4] - 128)

\* Whether b is well-formed UTF-8 for one character: the lead byte tells
\* the length and the others are continuation bytes.
WellFormedUtf8(b) ==
    /\ Len(b) \in 1..4
    /\ CASE Len(b) = 1 -> b[1] < 128
         [] Len(b) = 2 -> b[1] \in 192..223
         [] Len(b) = 3 -> b[1] \in 224..239
         [] Len(b) = 4 -> b[1] \in 240..247
    /\ \A i \in 2..Len(b) : b[i] \in 128..191

\* The visitor operation each type of VisitTypes is to reach.
MatchingVisit(ty) ==
    CASE ty \in UnsignedTypes -> "visit_u64"
      [] ty \in SignedTypes -> "visit_i64"
      [] ty \in FloatTypes -> "visit_f64"
      [] ty = "bool" -> "visit_bool"
      [] ty = "char" -> "visit_char"
      [] ty \in TextTypes -> "visit_str"
      [] ty \in ByteTypes -> "visit_bytes"

\* Whether the argument of call c equals the value v of type ty.
SameValue(ty, v, c) ==
    CASE ty \in UnsignedTypes ->
            Len(c.val) = 8 /\ IntValue(FALSE, c.val) = IntValue(FALSE, v)
      [] ty \in SignedTypes ->
            Len(c.val) = 8 /\ IntValue(TRUE, c.val) = IntValue(TRUE, v)
      [] ty = "f32" -> Len(c.val) = 4 /\ FloatValue64(c.val) = FloatValue32(v)
      [] OTHER -> c.val = v

\* C1: in the self-contained build, capturing a value v of a type T of
\* VisitTypes makes exactly one call on the visitor, of the kind matching
\* T, whose argument equals v numerically after widening to 64 bits.
C1_OneMatchingCall ==
    (Done /\ feature = "self_contained" /\ value.layers = <<>>) =>
        /\ Len(TopCalls) = 1
        /\ TopCalls[1].m = MatchingVisit(value.core.ty)
        /\ SameValue(value.core.ty, value.core.payload, TopCalls[1])

\* i8 -128 reached visit_i64 as the 64-bit pattern of -128.
C1_Witness ==
    /\ Done /\ feature = "self_contained" /\ value.layers = <<>>
    /\ value.core.ty = "i8" /\ value.core.payload = <<128>>
    /\ calls[1].m = "visit_i64"
    /\ calls[1].val = <<128>> \o Fill(7, 255)

\* The value's Serialize impl made a first call on the bridge, and it was m.
FirstCallIs(m) == bridge.received # <<>> /\ bridge.received[1] = m

\* C2: when the first call a value makes on the bridge is one of the
\* structured-shaped methods, the bridge returns Err(Unsupported) and has
\* made no call on the wrapped visitor.
C2_StructuredRejected ==
    (Done /\ feature = "serde_interop" /\ bridge.received # <<>>
          /\ bridge.received[1] \in StructuredMethods) =>
        /\ bridge.returned = Unsupported
        /\ bridge.calls = <<>>

\* A sequence-shaped value was driven through the bridge and rejected.
C2_Witness ==
    /\ Done /\ feature = "serde_interop" /\ FirstCallIs("serialize_seq")
    /\ bridge.returned = Unsupported

\* C3: when the first call a value makes on the bridge is collect_str, the
\* bridge fails with Unsupported and delivers nothing to the visitor.
C3_CollectStrRejected ==
    (Done /\ feature = "serde_interop" /\ FirstCallIs("collect_str")) =>
        /\ bridge.returned = Unsupported
        /\ bridge.calls = <<>>

\* C4: every capture of the serde_interop build gives the visitor exactly
\* one top-level call: the bridge's call with an Ok result and no fallback,
\* or no call from the bridge, an Unsupported result and the one fallback
\* visit_args call.  (The visit_args of an accepted collect_str is counted
\* as the bridge's one call here.)
C4_ExactlyOneOutcome ==
    (Done /\ feature = "serde_interop") =>
        /\ Len(TopCalls) = 1
        /\ bridge.result = "Ok" => calls = bridge.calls
        /\ bridge.result = Unsupported =>
              bridge.calls = <<>> /\ TopCalls[1].m = "visit_args"

\* A value is primitive-shaped when its Serialize impl calls one of the
\* forwarding methods and returns that call's result.
PrimitiveShaped(layers, core) ==
    /\ layers = <<>>
    /\ core.method \in PrimitiveMethods
    /\ core.after = "return"

\* C5: driving Some(p) through the bridge, p primitive-shaped, gives the
\* result and the visitor calls that driving p through it gives.
C5_SomeIsTransparent ==
    (Done /\ feature = "serde_interop" /\ value.layers # <<>>
          /\ Head(value.layers) = "some"
          /\ PrimitiveShaped(Tail(value.layers), value.core)) =>
        LET inner == Serialize(<<>>, value.core, visitor)
        IN  /\ bridge.result = inner.result
            /\ bridge.calls = inner.calls
            /\ bridge.result = "Ok"
            /\ Len(TopCalls) = 1

\* Some(1u8) reached visit_u64.
C5_Witness ==
    /\ Done /\ feature = "serde_interop" /\ value.layers = <<"some">>
    /\ value.core.ty = "u8" /\ value.core.payload = <<1>>
    /\ bridge.result = "Ok"
    /\ TopCalls[1].m = "visit_u64"

\* The fallback calls: top-level visit_args calls with a Debug argument.
FallbackCalls ==
    SelectSeq(calls, LAMBDA c : c.depth = 0 /\ c.m = "visit_args" /\ c.of = "Debug")

\* C6: whenever the bridge attempt returns Unsupported there is one
\* fallback visit_args call, it is the last call, and its text is the
\* Debug rendering of the captured value: not the error's text and not a
\* message given to Error::custom.
C6_FallbackIsDebug ==
    (Done /\ feature = "serde_interop" /\ bridge.result = Unsupported) =>
        /\ calls # <<>>
        /\ calls[Len(calls)] =
              Call("visit_args", "Debug", value.core.dbg, "{:?}", 0)
        /\ Len(FallbackCalls) = 1
        /\ \A i \in 1..Len(calls) :
              calls[i].m = "visit_args" /\ calls[i].depth = 0 =>
                  calls[i].val \notin Messages \cup {UnsupportedText}

\* A value whose impl raised Error::custom was rendered with Debug.
C6_Witness ==
    /\ Done /\ feature = "serde_interop" /\ value.core.method = "none"
    /\ bridge.result = Unsupported
    /\ calls = <<Call("visit_args", "Debug", value.core.dbg, "{:?}", 0)>>

\* The captures that end with a primitive: every self-contained one, and a
\* serde_interop one whose bridge attempt returned Ok.
PrimitiveCapture ==
    Done /\ (feature = "self_contained" \/ bridge.result = "Ok")

\* C7: on a visitor that overrides visit_args alone, the default of
\* visit_char calls visit_str with the UTF-8 encoding of the char (1 to 4
\* bytes), which then calls visit_args; every other default calls
\* visit_args at once; so a primitive capture ends in exactly one
\* visit_args call and no default but visit_char's calls another visit_*.
C7_DefaultsReachArgs ==
    (PrimitiveCapture /\ visitor = {"visit_args"}) =>
        /\ Len(SelectSeq(calls, LAMBDA c : c.m = "visit_args")) = 1
        /\ calls[Len(calls)].m = "visit_args"
        /\ \A i \in 1..Len(calls) :
              /\ (calls[i].depth > 0 /\ calls[i].m # "visit_args") =>
                    calls[i].m = "visit_str" /\ calls[i - 1].m = "visit_char"
              /\ calls[i].m = "visit_char" =>
                    /\ Len(calls) = i + 2
                    /\ calls[i + 1].m = "visit_str"
                    /\ calls[i + 1].depth = calls[i].depth + 1
                    /\ WellFormedUtf8(calls[i + 1].val)
                    /\ decode_utf8(calls[i + 1].val) = calls[i].val[1]
                    /\ calls[i + 2] =
                          Call("visit_args", "str", calls[i + 1].val, "{:?}",
                               calls[i].depth + 2)
              /\ calls[i].m \notin {"visit_char", "visit_args"} =>
                    /\ Len(calls) = i + 1
                    /\ calls[i + 1] =
                          Call("visit_args", calls[i].of, calls[i].val, "{:?}",
                               calls[i].depth + 1)

\* A char of three UTF-8 bytes went visit_char, visit_str, visit_args.
C7_Witness ==
    /\ Done /\ visitor = {"visit_args"} /\ Len(calls) = 3
    /\ calls[1].m = "visit_char" /\ calls[1].val = <<2048>>
    /\ calls[2].m = "visit_str" /\ calls[2].val = <<224, 160, 128>>
    /\ calls[3].m = "visit_args"

\* C8: Visit::visit on a reference makes the visitor calls, with the same
\* arguments, that Visit::visit on the referent makes, whatever the number
\* of reference layers.
C8_ReferenceTransparent ==
    (Done /\ value.layers # <<>> /\ Head(value.layers) = "ref") =>
        IF feature = "self_contained"
        THEN /\ calls = visit_self_contained(Tail(value.layers), value.core.ty,
                                             value.core.payload, visitor)
             /\ calls = visit_impl(value.core.ty, value.core.payload, visitor)
        ELSE calls = visit_serde([value EXCEPT !.layers = Tail(@)], visitor).calls

\* &&"a string" reached visit_str in the self-contained build.
C8_Witness ==
    /\ Done /\ feature = "self_contained" /\ value.layers = <<"ref", "ref">>
    /\ value.core.ty = "str"
    /\ TopCalls = <<Call("visit_str", "str", value.core.payload, "-", 0)>>

\* The wrappers of a value under its outer references.
RECURSIVE StripRefs(_)
StripRefs(layers) ==
    IF layers # <<>> /\ Head(layers) = "ref" THEN StripRefs(Tail(layers))
    ELSE layers

\* C9: the bridge unwraps Some for a single level only: when the inner
\* value of a Some is not primitive-shaped (it is structured, or it is
\* another Some), the bridge returns Unsupported and makes no visitor call.
C9_SingleLevelSome ==
    (Done /\ feature = "serde_interop" /\ value.core.after = "return"
          /\ StripRefs(value.layers) # <<>>
          /\ \/ "some" \in {Tail(StripRefs(value.layers))[i] :
                              i \in 1..(Len(StripRefs(value.layers)) - 1)}
             \/ value.core.method \in StructuredMethods) =>
        /\ bridge.result = Unsupported
        /\ bridge.calls = <<>>

\* C10: for every type of VisitTypes and every value of it, the
\* serde_interop build delivers the visitor calls the self-contained build
\* delivers.
C10_BuildsAgree ==
    (Done /\ feature = "serde_interop" /\ value.core.ty \in VisitTypes
          /\ value.layers = <<>>) =>
        calls = visit_self_contained(<<>>, value.core.ty, value.core.payload,
                                     visitor)

====
